---- MODULE Spec2Model ----
(***************************************************************************)
(* Contact-form backend of softex-lab: the per-IP rate limiter (the        *)
(* checkRateLimit variant of api/contact.go and the inline limiter of the  *)
(* second Handler variant in the same file), the cleanupVisitors sweep and *)
(* the Handler pipeline.  Time is counted in minutes.                      *)
(*                                                                         *)
(* Spec  : the limiter alone, one statement group of its critical section  *)
(*         per step, with the sweep and the clock.                         *)
(* SpecH : whole requests served by Handler, the limiter inside.           *)
(* SpecD : the requests that reach the SMTP configuration and delivery.    *)
(* SpecS : sanitizeInput, validateContactData and formatEmailBody applied  *)
(*         to inputs drawn from bounded sets.                              *)
(* SpecN : HandlerWithNotifications and its background task.               *)
(* SpecA : goroutines in HandlerWithAnalytics, recordSubmission unlocked.  *)
(* SpecI : getClientIP of both Handler variants on drawn requests.         *)
(* SpecL : the three limiters (main.go's token bucket included) with their *)
(*         sweeps and the clock scheduled fairly.                          *)
(* SpecF : the contactForm component of the page: typing, submitData, the  *)
(*         responses of its requests in flight.                            *)
(***************************************************************************)
EXTENDS Integers, Sequences, FiniteSets, TLC

VARIABLES variant, now, visitors, mu, cur, lastSweep,
          hstart, hk, trig, admits, setOneAt, last,
          env, resp,
          inp, out,
          hn, task, logs,
          procs, submissions, analytics,
          form, fetches, settled

vars == <<variant, now, visitors, mu, cur, lastSweep,
          hstart, hk, trig, admits, setOneAt, last, env, resp,
          inp, out, hn, task, logs, procs, submissions, analytics,
          form, fetches, settled>>

\* the state of the limiter and its history
limVars == <<variant, now, visitors, mu, cur, lastSweep,
             hstart, hk, trig, admits, setOneAt, last>>
\* the input of a pure function and its result
pureVars == <<inp, out>>
\* HandlerWithNotifications, its background task and the log
notifVars == <<hn, task, logs>>
\* the requests in flight through HandlerWithAnalytics and the analytics globals
anaVars == <<procs, submissions, analytics>>
\* the contactForm component of the page, its requests in flight and the
\* response handled last
formVars == <<form, fetches, settled>>

\* ---------------------------------------------------------------- bounds
MaxTime == 17
MaxCount == 7
MaxTimeH == 1
\* longest string handed to sanitizeInput, longest decoration of a message
MaxLen == 3
MaxPad == 2
\* requests one goroutine serves through HandlerWithAnalytics
MaxReqs == 2
\* the minute from which the observed clients send no request any more
QuietFrom == 2
\* requests of the contact form in flight, with the timers still to fire
MaxFetches == 2
IPs == {"192.0.2.1", "198.51.100.10"}
\* the client whose requests exercise the limiter over the long time range
Clients == {"192.0.2.1"}

\* ------------------------------------------------------- program constants
rateLimit == 3
timeWindow == 5
blockDuration == 15
rateLimit2 == 5
timeWindow2 == 1
sweepEvery == 10

Variants == {"contact", "inline"}

RateLimit(v) == IF v = "contact" THEN rateLimit ELSE rateLimit2
TimeWindow(v) == IF v = "contact" THEN timeWindow ELSE timeWindow2
\* main.go: rate.NewLimiter(rate.Every(10*time.Second), 3), the sweep
burst == 3
refillPerMinute == 6
sweepEveryMain == 1
retentionMain == 3

Retention(v) == IF v = "contact" THEN timeWindow * 2
                ELSE IF v = "main" THEN retentionMain ELSE timeWindow2
SweepEvery(v) == IF v = "main" THEN sweepEveryMain ELSE sweepEvery

\* "no time recorded" in the history variables
None == 0 - 1

\* ------------------------------------------------------------ requestInfo
NoEntry == [present |-> FALSE, count |-> 0, lastSeen |-> 0, blocked |-> FALSE]
NewEntry(t) == [present |-> TRUE, count |-> 1, lastSeen |-> t, blocked |-> FALSE]

Since(e, t) == t - e.lastSeen

\* v.blocked && time.Since(v.lastSeen) < blockDuration (only checkRateLimit has it)
BlockActive_le(e, t, v) == v = "contact" /\ e.blocked /\ Since(e, t) <= blockDuration
BlockActive(e, t, v) == v = "contact" /\ e.blocked /\ Since(e, t) < blockDuration

\* time.Since(v.lastSeen) > timeWindow
WindowElapsed_ge(e, t, v) == Since(e, t) >= TimeWindow(v)
WindowElapsed(e, t, v) == Since(e, t) > TimeWindow(v)

\* v.count > rateLimit
Exceeds_ge(e, v) == e.count >= RateLimit(v)
Exceeds(e, v) == e.count > RateLimit(v)

\* cleanupVisitors: time.Since(v.lastSeen) > retention
Stale_ge(e, t, v) == Since(e, t) >= Retention(v)
Stale(e, t, v) == Since(e, t) > Retention(v)

\* ---------------------------------------------------- limiter, step by step
\* First step inside the critical section: look the entry up and write count.
\* next = "ret" : the function returns (verdict tells how); "seen": go on.
CountStep_touchBlocked(e, t, v) ==
  IF ~e.present
    THEN [entry |-> NewEntry(t), next |-> "ret", verdict |-> "ok", reset |-> TRUE]
  ELSE IF BlockActive(e, t, v)
    THEN [entry |-> [e EXCEPT !.lastSeen = t], next |-> "ret", verdict |-> "blocked",
          reset |-> FALSE]
  ELSE IF WindowElapsed(e, t, v)
    THEN [entry |-> [e EXCEPT !.count = 1, !.blocked = FALSE],
          next |-> "seen", verdict |-> "ok", reset |-> TRUE]
    ELSE [entry |-> [e EXCEPT !.count = e.count + 1],
          next |-> "seen", verdict |-> "ok", reset |-> FALSE]
CountStep_noUnblock(e, t, v) ==
  IF ~e.present
    THEN [entry |-> NewEntry(t), next |-> "ret", verdict |-> "ok", reset |-> TRUE]
  ELSE IF BlockActive(e, t, v)
    THEN [entry |-> e, next |-> "ret", verdict |-> "blocked", reset |-> FALSE]
  ELSE IF WindowElapsed(e, t, v)
    THEN [entry |-> [e EXCEPT !.count = 1],
          next |-> "seen", verdict |-> "ok", reset |-> TRUE]
    ELSE [entry |-> [e EXCEPT !.count = e.count + 1],
          next |-> "seen", verdict |-> "ok", reset |-> FALSE]
CountStep(e, t, v) ==
  IF ~e.present
    THEN [entry |-> NewEntry(t), next |-> "ret", verdict |-> "ok", reset |-> TRUE]
  ELSE IF BlockActive(e, t, v)
    THEN [entry |-> e, next |-> "ret", verdict |-> "blocked", reset |-> FALSE]
  ELSE IF WindowElapsed(e, t, v)
    THEN [entry |-> [e EXCEPT !.count = 1, !.blocked = FALSE],
          next |-> "seen", verdict |-> "ok", reset |-> TRUE]
    ELSE [entry |-> [e EXCEPT !.count = e.count + 1],
          next |-> "seen", verdict |-> "ok", reset |-> FALSE]

\* Second step: write lastSeen, compare with the limit, return.
\* checkRateLimit writes lastSeen on every counted request, the inline limiter
\* only when it has just reset the counter.
WritesLastSeen_onReset(v, reset) == reset
WritesLastSeen(v, reset) == v = "contact" \/ reset

SeenStep(e, t, v, reset) ==
  LET e1 == IF WritesLastSeen(v, reset) THEN [e EXCEPT !.lastSeen = t] ELSE e
  IN IF Exceeds(e1, v)
       THEN [entry |-> IF v = "contact" THEN [e1 EXCEPT !.blocked = TRUE] ELSE e1,
             verdict |-> "exceeded"]
       ELSE [entry |-> e1, verdict |-> "ok"]

\* The whole critical section for one entry, as one function.
CheckEntry(e, t, v) ==
  LET c == CountStep(e, t, v)
  IN IF c.next = "ret"
       THEN [entry |-> c.entry, verdict |-> c.verdict]
       ELSE SeenStep(c.entry, t, v, c.reset)

\* cleanupVisitors: one pass over the map under the lock.
SweepMap(vis, t, v) ==
  [ip \in IPs |-> IF vis[ip].present /\ Stale(vis[ip], t, v) THEN NoEntry ELSE vis[ip]]

\* ------------------------------------------------------------------ strings
\* A string is a sequence of characters; a character is a one-letter string
\* or the name of a control / space character.
Lower == {"a", "b", "c", "e", "g", "l", "m", "n", "o", "p", "t", "x"}
Upper == {"J", "D"}
Accented == {"á", "ñ"}
Digits == {"1", "3", "4", "9"}
\* \t \n (white space and control), NUL (control only), " " and NBSP (space only)
CtlSpace == {"TAB", "LF"}
CtlOnly == {"NUL"}
SpaceOnly == {" ", "NBSP"}

\* len(s) counts bytes: the accented letters and U+00A0 take two
ByteLen(c) == IF c \in Accented \cup {"NBSP"} THEN 2 ELSE 1
\* (summed by halves, which keeps the evaluation shallow on long strings)
RECURSIVE ByteLength(_)
ByteLength(s) ==
  IF s = <<>> THEN 0
  ELSE IF Len(s) = 1 THEN ByteLen(s[1])
  ELSE LET h == Len(s) \div 2
       IN ByteLength(SubSeq(s, 1, h)) + ByteLength(SubSeq(s, h + 1, Len(s)))

\* html.EscapeString
EscapeChar(c) ==
  CASE c = "&" -> <<"&", "a", "m", "p", ";">>
    [] c = "<" -> <<"&", "l", "t", ";">>
    [] c = ">" -> <<"&", "g", "t", ";">>
    [] c = "\"" -> <<"&", "#", "3", "4", ";">>
    [] c = "'" -> <<"&", "#", "3", "9", ";">>
    [] OTHER -> <<c>>
RECURSIVE EscapeString(_)
EscapeString(s) ==
  IF s = <<>> THEN <<>>
  ELSE IF Len(s) = 1 THEN EscapeChar(s[1])
  ELSE LET h == Len(s) \div 2
       IN EscapeString(SubSeq(s, 1, h)) \o EscapeString(SubSeq(s, h + 1, Len(s)))

\* strings.TrimSpace
IsSpace(c) == c \in CtlSpace \cup SpaceOnly
RECURSIVE TrimLeft(_)
TrimLeft(s) == IF s # <<>> /\ IsSpace(Head(s)) THEN TrimLeft(Tail(s)) ELSE s
RECURSIVE TrimRight(_)
TrimRight(s) ==
  IF s # <<>> /\ IsSpace(s[Len(s)]) THEN TrimRight(SubSeq(s, 1, Len(s) - 1)) ELSE s
TrimSpace(s) == TrimRight(TrimLeft(s))

\* regexp [\x00-\x1f\x7f] replaced by ""
IsControl(c) == c \in CtlSpace \cup CtlOnly
StripControl(s) == SelectSeq(s, LAMBDA c : ~IsControl(c))

\* sanitizeInput: escape, then trim, then strip the control characters
sanitizeInput(input) == StripControl(TrimSpace(EscapeString(input)))

AllIn(s, i, j, class) == \A k \in i..j : s[k] \in class

\* ^[a-zA-ZáéíóúÁÉÍÓÚñÑ\s]+$
NameClass == Lower \cup Upper \cup Accented \cup {" "} \cup CtlSpace
NameMatches(s) == s # <<>> /\ AllIn(s, 1, Len(s), NameClass)

\* ^[a-zA-Z0-9._%+-]+@[a-zA-Z0-9.-]+\.[a-zA-Z]{2,}$
LocalClass == Lower \cup Upper \cup Digits \cup {".", "_", "%", "+", "-"}
DomainClass == Lower \cup Upper \cup Digits \cup {".", "-"}
emailRegex(s) ==
  \E i \in 1..Len(s) : \E j \in (i + 1)..Len(s) :
    /\ s[i] = "@" /\ s[j] = "."
    /\ i > 1 /\ AllIn(s, 1, i - 1, LocalClass)
    /\ j > i + 1 /\ AllIn(s, i + 1, j - 1, DomainClass)
    /\ Len(s) - j >= 2 /\ AllIn(s, j + 1, Len(s), Lower \cup Upper)

\* second variant: ^[^\s@]+@[^\s@]+\.[^\s@]+$
NotSpaceAt(s, i, j) == \A k \in i..j : s[k] # "@" /\ s[k] \notin CtlSpace \cup {" "}
emailRegex2(s) ==
  \E i \in 1..Len(s) : \E j \in (i + 1)..Len(s) :
    /\ s[i] = "@" /\ s[j] = "."
    /\ i > 1 /\ NotSpaceAt(s, 1, i - 1)
    /\ j > i + 1 /\ NotSpaceAt(s, i + 1, j - 1)
    /\ Len(s) > j /\ NotSpaceAt(s, j + 1, Len(s))

MaxNameLength == 100
MaxEmailLength == 254
MaxMessageLength == 2000
MinMessageLength == 10

\* validateContactData: sanitize the three fields, then the rules in order;
\* the result is the sanitized data and the first error ("" when none).
ValidateFields_noMessageRules(d) ==
  IF d.name = <<>> THEN "el nombre es obligatorio"
  ELSE IF ByteLength(d.name) > MaxNameLength THEN "el nombre no puede exceder"
  ELSE IF ~NameMatches(d.name) THEN "el nombre solo puede contener letras y espacios"
  ELSE IF d.email = <<>> THEN "el correo electrónico es obligatorio"
  ELSE IF ByteLength(d.email) > MaxEmailLength THEN "el correo electrónico no puede exceder"
  ELSE IF ~emailRegex(d.email) THEN "el formato del correo electrónico no es válido"
  ELSE ""
ValidateFields_emailFirst(d) ==
  IF d.email = <<>> THEN "el correo electrónico es obligatorio"
  ELSE IF ByteLength(d.email) > MaxEmailLength THEN "el correo electrónico no puede exceder"
  ELSE IF ~emailRegex(d.email) THEN "el formato del correo electrónico no es válido"
  ELSE IF d.name = <<>> THEN "el nombre es obligatorio"
  ELSE IF ByteLength(d.name) > MaxNameLength THEN "el nombre no puede exceder"
  ELSE IF ~NameMatches(d.name) THEN "el nombre solo puede contener letras y espacios"
  ELSE IF d.message = <<>> THEN "el mensaje es obligatorio"
  ELSE IF ByteLength(d.message) < MinMessageLength THEN "el mensaje debe tener al menos"
  ELSE IF ByteLength(d.message) > MaxMessageLength THEN "el mensaje no puede exceder"
  ELSE ""
ValidateFields(d) ==
  IF d.name = <<>> THEN "el nombre es obligatorio"
  ELSE IF ByteLength(d.name) > MaxNameLength THEN "el nombre no puede exceder"
  ELSE IF ~NameMatches(d.name) THEN "el nombre solo puede contener letras y espacios"
  ELSE IF d.email = <<>> THEN "el correo electrónico es obligatorio"
  ELSE IF ByteLength(d.email) > MaxEmailLength THEN "el correo electrónico no puede exceder"
  ELSE IF ~emailRegex(d.email) THEN "el formato del correo electrónico no es válido"
  ELSE IF d.message = <<>> THEN "el mensaje es obligatorio"
  ELSE IF ByteLength(d.message) < MinMessageLength THEN "el mensaje debe tener al menos"
  ELSE IF ByteLength(d.message) > MaxMessageLength THEN "el mensaje no puede exceder"
  ELSE ""

validateContactData(d) ==
  LET sd == [name |-> sanitizeInput(d.name), email |-> sanitizeInput(d.email),
             message |-> sanitizeInput(d.message)]
  IN [data |-> sd, err |-> ValidateFields(sd)]

\* A request body: json tells whether json Decode succeeds; the fields are the
\* decoded ContactData, a key missing from the JSON object giving "".
EmptyData == [name |-> <<>>, email |-> <<>>, message |-> <<>>]
DataOf(body) == [name |-> body.name, email |-> body.email, message |-> body.message]

\* parseAndValidateRequest of the first variant
parseAndValidateRequest(body) ==
  IF ~body.json
    THEN [data |-> EmptyData, err |-> "error al decodificar la solicitud JSON"]
  ELSE LET r == validateContactData(DataOf(body))
       IN IF r.err # "" THEN [data |-> EmptyData, err |-> r.err] ELSE r

\* parseAndValidateRequest of the second variant
parseAndValidateRequest2(body) ==
  IF ~body.json
    THEN [data |-> EmptyData, err |-> "error al decodificar la solicitud JSON"]
  ELSE IF body.name = <<>> \/ body.email = <<>> \/ body.message = <<>>
    THEN [data |-> EmptyData, err |-> "todos los campos son obligatorios"]
  ELSE IF ~emailRegex2(body.email)
    THEN [data |-> EmptyData, err |-> "el formato del correo electrónico no es válido"]
  ELSE [data |-> DataOf(body), err |-> ""]

\* -------------------------------------------------------------- the Handler
\* newSmtpConfig
ZeroConfig == [Host |-> "", Port |-> "", User |-> "", Pass |-> "", ToEmail |-> ""]
newSmtpConfig_requiresTo(e) ==
  IF e.SMTP_HOST = "" \/ e.SMTP_PORT = "" \/ e.SMTP_USER = "" \/ e.SMTP_PASS = ""
       \/ e.TO_EMAIL = ""
    THEN [config |-> ZeroConfig,
          err |-> "error de configuración del servidor para enviar el correo. Contacte al administrador"]
    ELSE [config |-> [Host |-> e.SMTP_HOST, Port |-> e.SMTP_PORT, User |-> e.SMTP_USER,
                      Pass |-> e.SMTP_PASS, ToEmail |-> e.TO_EMAIL],
          err |-> ""]
newSmtpConfig(e) ==
  IF e.SMTP_HOST = "" \/ e.SMTP_PORT = "" \/ e.SMTP_USER = "" \/ e.SMTP_PASS = ""
    THEN [config |-> ZeroConfig,
          err |-> "error de configuración del servidor para enviar el correo. Contacte al administrador"]
    ELSE [config |-> [Host |-> e.SMTP_HOST, Port |-> e.SMTP_PORT, User |-> e.SMTP_USER,
                      Pass |-> e.SMTP_PASS,
                      ToEmail |-> IF e.TO_EMAIL = "" THEN "contacto@softex-labs.xyz"
                                  ELSE e.TO_EMAIL],
          err |-> ""]

\* allowedOrigin := os.Getenv("ALLOWED_ORIGIN"), with the variant's fallback
AllowedOrigin(e, v) ==
  IF e.ALLOWED_ORIGIN # "" THEN e.ALLOWED_ORIGIN
  ELSE IF v = "contact" THEN "https://softex-labs.xyz" ELSE "*"

\* the origin check of the first variant; the second variant has none
OriginRejected_anyMethod(req, e, v) ==
  /\ v = "contact"
  /\ req.origin # "" /\ req.origin # AllowedOrigin(e, v) /\ AllowedOrigin(e, v) # "*"
OriginRejected(req, e, v) ==
  /\ v = "contact"
  /\ req.method # "OPTIONS"
  /\ req.origin # "" /\ req.origin # AllowedOrigin(e, v) /\ AllowedOrigin(e, v) # "*"

Parse(body, v) ==
  IF v = "contact" THEN parseAndValidateRequest(body) ELSE parseAndValidateRequest2(body)

\* The handler's progress: done after a return; writes are the WriteHeader
\* calls, bodies the JSON objects written; sent tells that smtp.SendMail was
\* called, sendErr what sendEmail returned ("none" when it was not called).
Start(entry) ==
  [done |-> FALSE, writes |-> <<>>, bodies |-> <<>>, msgs |-> <<>>, sent |-> FALSE,
   sendErr |-> "none", entry |-> entry, rl |-> "none"]

\* every sendJSONError in the handler is followed by return
ReturnsAfter_notAfterSend(stage) == stage # "send"
ReturnsAfter(stage) == TRUE

\* sendJSONError(w, message, status); return
Fail(st, message, status, stage) ==
  [st EXCEPT !.writes = Append(@, status), !.bodies = Append(@, "error"),
             !.msgs = Append(@, message), !.done = ReturnsAfter(stage)]

StageOrigin(st, req, e, v) ==
  IF ~st.done /\ OriginRejected(req, e, v) THEN Fail(st, "Origen no permitido", 403, "origin") ELSE st

StageOptions(st, req) ==
  IF ~st.done /\ req.method = "OPTIONS"
    THEN [st EXCEPT !.writes = Append(@, 200), !.done = TRUE]
    ELSE st

\* the error of checkRateLimit, the message of the inline limiter
RateLimitText(verdict, v) ==
  IF v = "inline" THEN "Has excedido el límite de solicitudes. Por favor, inténtalo de nuevo más tarde."
  ELSE IF verdict = "blocked"
    THEN "IP bloqueada temporalmente por exceder el límite de solicitudes"
    ELSE "has excedido el límite de solicitudes. Intenta de nuevo en 15 minutos"

StageRate(st, t, v) ==
  IF st.done THEN st
  ELSE LET r == CheckEntry(st.entry, t, v)
           st1 == [st EXCEPT !.entry = r.entry, !.rl = r.verdict]
       IN IF r.verdict # "ok" THEN Fail(st1, RateLimitText(r.verdict, v), 429, "rate")
          ELSE st1

StageMethod(st, req) ==
  IF ~st.done /\ req.method # "POST"
    THEN Fail(st, "Método no permitido. Solo se acepta POST.", 405, "method")
    ELSE st

StageParse(st, req, v) ==
  IF ~st.done /\ Parse(req.body, v).err # ""
    THEN Fail(st, Parse(req.body, v).err, 400, "parse")
    ELSE st

StageConfig(st, e) ==
  IF ~st.done /\ newSmtpConfig(e).err # ""
    THEN Fail(st, newSmtpConfig(e).err, 500, "config")
    ELSE st

\* What smtp.SendMail returns: "" for nil, or the text of its error.
SmtpTransportErrors ==
  {"dial tcp 192.0.2.25:587: connect: connection refused", "tls: handshake failure"}
SmtpOtherErrors ==
  {"535 5.7.8 authentication failed", "554 5.7.1 relay access denied"}
SmtpErrors == SmtpTransportErrors \cup SmtpOtherErrors

\* sendEmail: the error of smtp.SendMail is logged and a fixed one returned
sendEmail_raw(outcome, v) == outcome
sendEmail(outcome, v) ==
  IF outcome = "" THEN ""
  ELSE IF v = "contact"
    THEN "no se pudo enviar el correo. Por favor, inténtalo de nuevo más tarde"
    ELSE "hubo un error interno al intentar enviar el correo. Por favor, inténtelo de nuevo más tarde"

\* the status the Handler answers when sendEmail returned an error
SendFailureStatus_classified(outcome) ==
  IF outcome \in SmtpTransportErrors THEN 503 ELSE 500
SendFailureStatus(outcome) == 500

\* sendEmail is called with req.smtp the outcome of smtp.SendMail
StageSend(st, req, v) ==
  IF st.done THEN st
  ELSE LET st1 == [st EXCEPT !.sent = TRUE, !.sendErr = sendEmail(req.smtp, v)]
       IN IF st1.sendErr # ""
            THEN Fail(st1, st1.sendErr, SendFailureStatus(req.smtp), "send")
            ELSE st1

\* sendJSONSuccess
StageSuccess(st) ==
  IF st.done THEN st
  ELSE [st EXCEPT !.writes = Append(@, 200), !.bodies = Append(@, "message"),
                  !.done = TRUE]

\* Handler, both variants
Handler_methodFirst(req, e, entry, t, v) ==
  LET s1 == StageOrigin(Start(entry), req, e, v)
      s2 == StageOptions(s1, req)
      s3 == StageMethod(s2, req)
      s4 == StageRate(s3, t, v)
      s5 == StageParse(s4, req, v)
      s6 == StageConfig(s5, e)
      s7 == StageSend(s6, req, v)
  IN StageSuccess(s7)
Handler_rateBeforeOptions(req, e, entry, t, v) ==
  LET s1 == StageOrigin(Start(entry), req, e, v)
      s2 == StageRate(s1, t, v)
      s3 == StageOptions(s2, req)
      s4 == StageMethod(s3, req)
      s5 == StageParse(s4, req, v)
      s6 == StageConfig(s5, e)
      s7 == StageSend(s6, req, v)
  IN StageSuccess(s7)
Handler(req, e, entry, t, v) ==
  LET s1 == StageOrigin(Start(entry), req, e, v)
      s2 == StageOptions(s1, req)
      s3 == StageRate(s2, t, v)
      s4 == StageMethod(s3, req)
      s5 == StageParse(s4, req, v)
      s6 == StageConfig(s5, e)
      s7 == StageSend(s6, req, v)
  IN StageSuccess(s7)

\* --------------------------------------------------------------- the mutex
CanLock(m) == m = "free"

\* defer mu.Unlock() / mu.Unlock() before each return: the mutex is held until
\* the critical section returns.
HeldAfter_early(next) == "free"
HeldAfter(next) == IF next = "ret" THEN "free" ELSE "req"

Idle == [pc |-> "idle", ip |-> "", reset |-> FALSE, pre |-> NoEntry, pset |-> None]
NoLast == [ip |-> "", t |-> 0, verdict |-> "none", k |-> 0, ptrig |-> None,
           pset |-> None, pre |-> NoEntry, post |-> NoEntry]
NoResp == [valid |-> FALSE]

\* ------------------------------------------------------ environments, inputs
SmtpFull == [SMTP_HOST |-> "smtp.example.com", SMTP_PORT |-> "587",
             SMTP_USER |-> "user", SMTP_PASS |-> "pass", TO_EMAIL |-> ""]
EnvOf(origin, smtp) ==
  [ALLOWED_ORIGIN |-> origin, SMTP_HOST |-> smtp.SMTP_HOST, SMTP_PORT |-> smtp.SMTP_PORT,
   SMTP_USER |-> smtp.SMTP_USER, SMTP_PASS |-> smtp.SMTP_PASS, TO_EMAIL |-> smtp.TO_EMAIL]
EnvChoices ==
  {EnvOf(o, c) : o \in {"", "*", "https://app.example"},
                 c \in {SmtpFull, [SmtpFull EXCEPT !.SMTP_PASS = ""]}}

Methods == {"OPTIONS", "POST", "GET"}
Origins == {"", "https://softex-labs.xyz", "https://evil.example"}
GoodName == <<"J", "o">>
GoodEmail == <<"a", "@", "b", ".", "c", "o">>
GoodMessage == <<"m", "e", "n", "t", "o", " ", "a", "b", "c", "e">>
GoodBody == [json |-> TRUE, name |-> GoodName, email |-> GoodEmail, message |-> GoodMessage]
Bodies ==
  { GoodBody,
    [GoodBody EXCEPT !.json = FALSE],
    [GoodBody EXCEPT !.name = <<>>],
    [GoodBody EXCEPT !.email = <<>>],
    [GoodBody EXCEPT !.message = <<>>],
    [GoodBody EXCEPT !.email = <<"a", "b">>],
    [GoodBody EXCEPT !.name = <<" ">>] }
Requests ==
  [method : Methods, origin : Origins, ip : Clients, body : Bodies,
   smtp : {"", "tls: handshake failure"}]

\* the requests that reach the SMTP configuration and the delivery
EnvChoicesD ==
  {EnvOf("", c) : c \in {SmtpFull, [SmtpFull EXCEPT !.SMTP_HOST = ""],
                          [SmtpFull EXCEPT !.SMTP_PORT = ""],
                          [SmtpFull EXCEPT !.SMTP_USER = ""],
                          [SmtpFull EXCEPT !.SMTP_PASS = ""],
                          [SmtpFull EXCEPT !.SMTP_HOST = "", !.SMTP_PASS = ""],
                          [SmtpFull EXCEPT !.TO_EMAIL = "ventas@example.com"],
                          [SmtpFull EXCEPT !.TO_EMAIL = "ventas@example.com",
                                           !.SMTP_USER = ""]}}
RequestsD ==
  [method : {"POST"}, origin : {""}, ip : Clients,
   body : {GoodBody, [GoodBody EXCEPT !.message = <<>>]},
   smtp : {""} \cup SmtpErrors]


\* The parts of the state a specification does not use stay at these values.
NoInput == [name |-> <<>>, email |-> <<>>, message |-> <<>>, ip |-> ""]
NoOut == [op |-> "none"]
PureIdle == inp = NoInput /\ out = NoOut
NoHn == [pc |-> "idle"]
NoTask == [pc |-> "none"]
NotifIdle == hn = NoHn /\ task = NoTask /\ logs = {}
AnaIdle == procs = <<>> /\ submissions = <<>> /\ analytics = 0

\* The contactForm component as Alpine creates it: empty fields, no error, not
\* loading.  A text shown to the user is a sequence of pieces, <<>> for ''.
NoFields == [name |-> <<>>, email |-> <<>>, message |-> <<>>]
NoForm == [formData |-> NoFields, errors |-> NoFields, loading |-> FALSE,
           successMessage |-> <<>>, errorMessage |-> <<>>,
           showSuccess |-> FALSE, showError |-> FALSE,
           charCounts |-> [name |-> 0, message |-> 0], timers |-> 0]
NoSettled == [valid |-> FALSE]
FormIdle == form = NoForm /\ fetches = <<>> /\ settled = NoSettled

\* ------------------------------------------------------------------- Init
Init ==
  /\ variant \in Variants
  /\ now = 0
  /\ visitors = [ip \in IPs |-> NoEntry]
  /\ mu = "free"
  /\ cur = Idle
  /\ lastSweep = 0
  /\ hstart = [ip \in IPs |-> None]
  /\ hk = [ip \in IPs |-> 0]
  /\ trig = [ip \in IPs |-> None]
  /\ admits = [ip \in IPs |-> <<>>]
  /\ setOneAt = [ip \in IPs |-> None]
  /\ last = NoLast
  /\ env = EnvOf("", SmtpFull)
  /\ resp = NoResp
  /\ PureIdle /\ NotifIdle /\ FormIdle /\ AnaIdle

hist == <<hstart, hk, trig, admits, setOneAt>>

\* ---------------------------------------------------------------- actions
\* mu.Lock() of a request from ip
Lock(ip) ==
  /\ CanLock(mu)
  /\ cur.pc = "idle"
  /\ visitors[ip].count < MaxCount
  /\ mu' = "req"
  /\ cur' = [pc |-> "count", ip |-> ip, reset |-> FALSE, pre |-> visitors[ip],
              pset |-> setOneAt[ip]]
  /\ last' = NoLast
  /\ UNCHANGED <<formVars, variant, now, visitors, lastSweep, hist, env, resp, pureVars, notifVars, anaVars>>

\* History kept at the return of a request.  hstart, hk: the run of requests
\* that began with a request finding no entry, while its window lasts.  trig:
\* the time of the request that triggered the limit, until a request is
\* admitted.  admits (checkRateLimit): the admissions of the last timeWindow.
\* last: the request that has just returned.
Return(ip, verdict, post) ==
  LET pre == cur.pre
      active == hstart[ip] # None
      k == IF active THEN (IF hk[ip] < MaxCount THEN hk[ip] + 1 ELSE hk[ip])
           ELSE IF ~pre.present THEN 1 ELSE 0
      c == variant = "contact"
  IN /\ cur' = Idle
     /\ hstart' = [hstart EXCEPT ![ip] = IF active THEN @
                                         ELSE IF ~pre.present THEN now ELSE None]
     /\ hk' = [hk EXCEPT ![ip] = k]
     /\ trig' = [trig EXCEPT ![ip] = IF c /\ verdict = "exceeded" THEN now
                                     ELSE IF verdict = "ok" THEN None ELSE @]
     /\ admits' = [admits EXCEPT ![ip] = IF c /\ verdict = "ok" THEN Append(@, now) ELSE @]
     /\ last' = [ip |-> ip, t |-> now, verdict |-> verdict, k |-> k,
                 ptrig |-> trig[ip], pset |-> cur.pset, pre |-> pre, post |-> post]

StepCount ==
  /\ cur.pc = "count"
  /\ LET ip == cur.ip
         c == CountStep(visitors[ip], now, variant)
     IN /\ visitors' = [visitors EXCEPT ![ip] = c.entry]
        /\ mu' = HeldAfter(c.next)
        /\ IF c.next = "ret"
             THEN /\ Return(ip, c.verdict, c.entry)
                  /\ setOneAt' = [setOneAt EXCEPT ![ip] = IF c.reset THEN now ELSE @]
             ELSE /\ cur' = [cur EXCEPT !.pc = "seen", !.reset = c.reset]
                  /\ setOneAt' = [setOneAt EXCEPT ![ip] = IF c.reset THEN now ELSE @]
                  /\ UNCHANGED <<formVars, hstart, hk, trig, admits, last>>
  /\ UNCHANGED <<formVars, variant, now, lastSweep, env, resp, pureVars, notifVars, anaVars>>

StepSeen ==
  /\ cur.pc = "seen"
  /\ LET ip == cur.ip
         s == SeenStep(visitors[ip], now, variant, cur.reset)
     IN /\ visitors' = [visitors EXCEPT ![ip] = s.entry]
        /\ mu' = HeldAfter("ret")
        /\ Return(ip, s.verdict, s.entry)
  /\ UNCHANGED <<formVars, variant, now, lastSweep, setOneAt, env, resp, pureVars, notifVars, anaVars>>

\* cleanupVisitors: time.Sleep(10 * time.Minute), then one pass under the lock
Sweep ==
  /\ CanLock(mu)
  /\ now - lastSweep >= sweepEvery
  /\ visitors' = SweepMap(visitors, now, variant)
  /\ lastSweep' = now
  /\ setOneAt' = [ip \in IPs |-> IF visitors'[ip].present THEN setOneAt[ip] ELSE None]
  /\ last' = NoLast
  /\ UNCHANGED <<formVars, variant, now, mu, cur, hstart, hk, trig, admits, env, resp, pureVars, notifVars, anaVars>>

\* The clock.  A critical section is short against the minute: no tick while
\* a request is inside it.
Tick ==
  /\ cur.pc = "idle"
  /\ now < MaxTime
  /\ now' = now + 1
  /\ admits' = [ip \in IPs |->
                 SelectSeq(admits[ip], LAMBDA a : now + 1 - a <= timeWindow)]
  /\ hstart' = [ip \in IPs |-> IF hstart[ip] # None /\ now + 1 - hstart[ip] <= TimeWindow(variant)
                                 THEN hstart[ip] ELSE None]
  /\ hk' = [ip \in IPs |-> IF hstart'[ip] # None THEN hk[ip] ELSE 0]
  /\ last' = NoLast
  /\ UNCHANGED <<formVars, variant, visitors, mu, cur, lastSweep, trig, setOneAt, env, resp, pureVars, notifVars, anaVars>>

Next ==
  \/ \E ip \in Clients : Lock(ip)
  \/ StepCount
  \/ StepSeen
  \/ Sweep
  \/ Tick

Spec == Init /\ [][Next]_vars

\* ------------------------------------------------- requests to the Handler
InitH ==
  /\ variant \in Variants
  /\ now = 0
  /\ visitors = [ip \in IPs |-> NoEntry]
  /\ mu = "free"
  /\ cur = Idle
  /\ lastSweep = 0
  /\ hstart = [ip \in IPs |-> None]
  /\ hk = [ip \in IPs |-> 0]
  /\ trig = [ip \in IPs |-> None]
  /\ admits = [ip \in IPs |-> <<>>]
  /\ setOneAt = [ip \in IPs |-> None]
  /\ last = NoLast
  /\ env \in EnvChoices
  /\ resp = NoResp
  /\ PureIdle /\ NotifIdle /\ FormIdle /\ AnaIdle

\* One request served by Handler; the limiter's critical section is inside it.
Handle(req) ==
  /\ CanLock(mu)
  /\ visitors[req.ip].count < MaxCount
  /\ \E st \in {Handler(req, env, visitors[req.ip], now, variant)} :
        /\ visitors' = [visitors EXCEPT ![req.ip] = st.entry]
        /\ resp' = [valid |-> TRUE, req |-> req, pre |-> visitors[req.ip], t |-> now,
                    writes |-> st.writes, bodies |-> st.bodies, msgs |-> st.msgs,
                    sent |-> st.sent,
                    sendErr |-> st.sendErr, rl |-> st.rl]
  /\ UNCHANGED <<formVars, variant, now, mu, cur, lastSweep, hist, last, env, pureVars, notifVars, anaVars>>

TickH ==
  /\ now < MaxTimeH
  /\ now' = now + 1
  /\ resp' = NoResp
  /\ UNCHANGED <<formVars, variant, visitors, mu, cur, lastSweep, hist, last, env, pureVars, notifVars, anaVars>>

NextH ==
  \/ \E req \in Requests : Handle(req)
  \/ TickH

SpecH == InitH /\ [][NextH]_vars

\* ------------------------------- requests that reach configuration and delivery
InitD ==
  /\ variant \in Variants
  /\ now = 0
  /\ visitors = [ip \in IPs |-> NoEntry]
  /\ mu = "free"
  /\ cur = Idle
  /\ lastSweep = 0
  /\ hstart = [ip \in IPs |-> None]
  /\ hk = [ip \in IPs |-> 0]
  /\ trig = [ip \in IPs |-> None]
  /\ admits = [ip \in IPs |-> <<>>]
  /\ setOneAt = [ip \in IPs |-> None]
  /\ last = NoLast
  /\ env \in EnvChoicesD
  /\ resp = NoResp
  /\ PureIdle /\ NotifIdle /\ FormIdle /\ AnaIdle

NextD == \E req \in RequestsD : Handle(req)

SpecD == InitD /\ [][NextD]_vars

\* ------------------------------------------------------------ formatEmailBody
\* html/template in text context: the escaper applied to {{.Name}}, {{.Email}},
\* {{.ClientIP}} and {{.Message}}
TemplateEscapeChar(c) ==
  CASE c = "&" -> <<"&", "a", "m", "p", ";">>
    [] c = "<" -> <<"&", "l", "t", ";">>
    [] c = ">" -> <<"&", "g", "t", ";">>
    [] c = "\"" -> <<"&", "#", "3", "4", ";">>
    [] c = "'" -> <<"&", "#", "3", "9", ";">>
    [] c = "+" -> <<"&", "#", "4", "3", ";">>
    [] c = "NUL" -> <<"U+FFFD">>
    [] OTHER -> <<c>>
RECURSIVE TemplateEscape(_)
TemplateEscape(s) ==
  IF s = <<>> THEN <<>>
  ELSE IF Len(s) = 1 THEN TemplateEscapeChar(s[1])
  ELSE LET h == Len(s) \div 2
       IN TemplateEscape(SubSeq(s, 1, h)) \o TemplateEscape(SubSeq(s, h + 1, Len(s)))

\* the text of a client address, character by character
IPChars(ip) ==
  IF ip = "192.0.2.1" THEN <<"1", "9", "2", ".", "0", ".", "2", ".", "1">>
  ELSE <<"1", "9", "8", ".", "5", "1", ".", "1", "0", "0", ".", "1", "0">>

\* emailTemplate.Execute: the fixed text of the template is kept in pieces,
\* with the characters next to a placeholder kept one by one
formatEmailBody(data, clientIP) ==
  <<"<!DOCTYPE html>...Recibido el ", "2006-01-02 15:04:05 UTC", "</p>...<strong>Nombre:</strong", ">", " ">>
    \o TemplateEscape(data.name)
    \o <<"<", "/p>...<strong>Email:</strong", ">", " ">>
    \o TemplateEscape(data.email)
    \o <<"<", "/p>...<strong>IP:</strong", ">", " ">>
    \o TemplateEscape(IPChars(clientIP))
    \o <<"<", "/p>...white-space: pre-wrap;\"", ">">>
    \o TemplateEscape(data.message)
    \o <<"<", "/div>...&copy; ", "Year", " Softex Labs...</html>">>

\* strings.Contains
Contains(b, sub) ==
  \E i \in 0..(Len(b) - Len(sub)) : SubSeq(b, i + 1, i + Len(sub)) = sub

\* ---------------------------------------- the pure functions, on drawn inputs
SanAlphabet == {"a", "&", "<", " ", "LF", "NUL", "ñ"}
Strs(n) == UNION {[1..k -> SanAlphabet] : k \in 0..n}
Fill(n) == [i \in 1..n |-> "a"]

\* messages around the minimum length, decorated at one end
NearMin ==
  {d \o Fill(n) : d \in Strs(MaxPad), n \in (MinMessageLength - 4)..MinMessageLength}
    \cup {Fill(n) \o d : d \in Strs(MaxPad), n \in (MinMessageLength - 4)..MinMessageLength}

NamesS ==
  {GoodName, <<>>, <<" ">>, Fill(MaxNameLength + 1), <<"J", "1">>, <<"J", "ñ", " ", "o">>,
   <<"J", "o", " ">>, Fill(MaxNameLength) \o <<"1">>}
EmailsS ==
  {GoodEmail, <<>>, <<"a", "b">>, <<"a", "@", "b">>, <<"a", "+", "1", "@", "b", ".", "c", "o">>,
   Fill(MaxEmailLength - 4) \o <<"@", "b", ".", "c", "o">>, Fill(MaxEmailLength + 1),
   <<"a", "@", "b", ".", "c", "o", " ">>}
MessagesS == {GoodMessage, <<>>, <<"D", "o", "n", "e">>, Fill(MaxMessageLength + 1)}

InputsS ==
  [name : {GoodName}, email : {GoodEmail}, message : Strs(MaxLen) \cup NearMin, ip : Clients]
    \cup [name : NamesS, email : EmailsS, message : MessagesS, ip : Clients]

InitS ==
  /\ variant = "contact"
  /\ now = 0
  /\ visitors = [ip \in IPs |-> NoEntry]
  /\ mu = "free"
  /\ cur = Idle
  /\ lastSweep = 0
  /\ hstart = [ip \in IPs |-> None]
  /\ hk = [ip \in IPs |-> 0]
  /\ trig = [ip \in IPs |-> None]
  /\ admits = [ip \in IPs |-> <<>>]
  /\ setOneAt = [ip \in IPs |-> None]
  /\ last = NoLast
  /\ env = EnvOf("", SmtpFull)
  /\ resp = NoResp
  /\ inp \in InputsS /\ out = NoOut
  /\ NotifIdle /\ FormIdle /\ AnaIdle

\* sanitizeInput applied to the message, then to its own result
Sanitize ==
  /\ out.op \in {"none", "sanitize"}
  /\ Len(inp.message) <= MaxLen
  /\ out.op = "sanitize" => out.n = 1
  /\ LET arg == IF out.op = "none" THEN inp.message ELSE out.res
     IN out' = [op |-> "sanitize", n |-> IF out.op = "none" THEN 1 ELSE 2,
                arg |-> arg, res |-> sanitizeInput(arg)]
  /\ UNCHANGED <<formVars, limVars, env, resp, inp, notifVars, anaVars>>

\* validateContactData applied to the three fields
Validate ==
  /\ out.op = "none"
  /\ \E r \in {validateContactData([name |-> inp.name, email |-> inp.email,
                                      message |-> inp.message])} :
        out' = [op |-> "validate", data |-> r.data, err |-> r.err]
  /\ UNCHANGED <<formVars, limVars, env, resp, inp, notifVars, anaVars>>

\* parseAndValidateRequest, then formatEmailBody on the data it accepted
Format ==
  /\ out.op = "none"
  /\ \E r \in {parseAndValidateRequest([json |-> TRUE, name |-> inp.name,
                                         email |-> inp.email, message |-> inp.message])} :
        /\ r.err = ""
        /\ out' = [op |-> "format", data |-> r.data,
                    body |-> formatEmailBody(r.data, inp.ip)]
  /\ UNCHANGED <<formVars, limVars, env, resp, inp, notifVars, anaVars>>

NextS ==
  \/ Sanitize
  \/ Validate
  \/ Format

SpecS == InitS /\ [][NextS]_vars

\* ---------------------------------------------------------------- getClientIP
\* The limiter and its history at rest, for the specifications that do not
\* step it.
LimIdle ==
  /\ now = 0
  /\ visitors = [ip \in IPs |-> NoEntry]
  /\ mu = "free"
  /\ cur = Idle
  /\ lastSweep = 0
  /\ hstart = [ip \in IPs |-> None]
  /\ hk = [ip \in IPs |-> 0]
  /\ trig = [ip \in IPs |-> None]
  /\ admits = [ip \in IPs |-> <<>>]
  /\ setOneAt = [ip \in IPs |-> None]
  /\ last = NoLast

\* strings.Split(s, sep)[0]
SplitFirst(s, sep) ==
  LET at == {i \in 1..Len(s) : s[i] = sep}
  IN IF at = {} THEN s
     ELSE SubSeq(s, 1, (CHOOSE i \in at : \A j \in at : i <= j) - 1)

\* the proxy headers in the order of the loop
ProxyHeaders_forwardedFirst ==
  <<"X-Forwarded-For", "CF-Connecting-IP", "X-Real-IP", "X-Client-IP">>
ProxyHeaders == <<"CF-Connecting-IP", "X-Forwarded-For", "X-Real-IP", "X-Client-IP">>

\* getClientIP of the first variant; r.header[h] is r.Header.Get(h)
RECURSIVE FirstHeader(_, _)
FirstHeader(r, hs) ==
  IF hs = <<>> THEN <<>>
  ELSE IF r.header[Head(hs)] # <<>> THEN r.header[Head(hs)]
  ELSE FirstHeader(r, Tail(hs))
getClientIP(r) ==
  IF FirstHeader(r, ProxyHeaders) # <<>>
    THEN SplitFirst(TrimSpace(FirstHeader(r, ProxyHeaders)), ",")
    ELSE SplitFirst(r.RemoteAddr, ":")

\* getClientIP of the second variant
getClientIP2(r) ==
  IF r.header["X-Forwarded-For"] # <<>>
    THEN SplitFirst(r.header["X-Forwarded-For"], ",")
    ELSE r.RemoteAddr

\* Header values and peer addresses: an address is kept as one piece ("A",
\* "B", "C", "L"), a port as "p"; the separators are characters.
HeaderNames == {"CF-Connecting-IP", "X-Forwarded-For", "X-Real-IP", "X-Client-IP"}
HeaderValues ==
  {<<>>, <<"A">>, <<"B", ",", " ", "A">>, <<" ", "C", " ", ",", "A">>}
RemoteAddrs == {<<"L", ":", "p">>, <<"[", ":", ":", "1", "]", ":", "p">>}
RequestsI == [header : [HeaderNames -> HeaderValues], RemoteAddr : RemoteAddrs]

InitI ==
  /\ variant \in Variants
  /\ LimIdle
  /\ env = EnvOf("", SmtpFull)
  /\ resp = NoResp
  /\ inp \in RequestsI /\ out = NoOut
  /\ NotifIdle /\ FormIdle /\ AnaIdle

\* clientIP := getClientIP(r)
ClientIP ==
  /\ out.op = "none"
  /\ out' = [op |-> "ip",
              res |-> IF variant = "contact" THEN getClientIP(inp) ELSE getClientIP2(inp)]
  /\ UNCHANGED <<formVars, limVars, env, resp, inp, notifVars, anaVars>>

NextI == ClientIP

SpecI == InitI /\ [][NextI]_vars

\* ------------------------------------------------- HandlerWithNotifications
\* the environment with the two switches of the fan-out
EnvN(webhook, auto) ==
  [ALLOWED_ORIGIN |-> "", SMTP_HOST |-> "smtp.example.com", SMTP_PORT |-> "587",
   SMTP_USER |-> "user", SMTP_PASS |-> "pass", TO_EMAIL |-> "",
   SLACK_WEBHOOK_URL |-> webhook, AUTO_RESPONSE_ENABLED |-> auto]
EnvChoicesN ==
  {EnvN(w, a) : w \in {"", "https://hooks.slack.example/T0/B0"}, a \in {"", "true"}}

\* what http.Post gives: an error, or a response with a status
SlackOutcomes ==
  {[postErr |-> "Post: dial tcp: i/o timeout", status |-> 0]}
    \cup {[postErr |-> "", status |-> c] : c \in {200, 404, 500}}
SlackFailed(o) == o.postErr # "" \/ o.status # 200

\* sendSlackNotification: the error it returns ("" for nil) and what it logs.
\* After http.Post succeeded err is nil, and "return err" returns it.
sendSlackNotification(e, o) ==
  IF e.SLACK_WEBHOOK_URL = "" THEN [err |-> "", log |-> {}]
  ELSE IF o.postErr # "" THEN [err |-> o.postErr, log |-> {}]
  ELSE IF o.status # 200 THEN [err |-> o.postErr, log |-> {}]
  ELSE [err |-> "", log |-> {"Notificación de Slack enviada exitosamente"}]

\* sendAutoResponse: o is what smtp.SendMail returns
sendAutoResponse(e, o) ==
  IF e.AUTO_RESPONSE_ENABLED # "true" THEN [err |-> "", log |-> {}]
  ELSE IF o # "" THEN [err |-> o, log |-> {"Error enviando auto-respuesta (sendAutoResponse)"}]
  ELSE [err |-> "", log |-> {"Auto-respuesta enviada exitosamente"}]

\* HandlerWithNotifications up to the go statement: done tells that it has
\* returned before it
HandlerWithNotifications(req, e, entry, t) ==
  LET s1 == StageOrigin(Start(entry), req, e, "contact")
      s2 == StageOptions(s1, req)
      s3 == StageRate(s2, t, "contact")
      s4 == StageMethod(s3, req)
      s5 == StageParse(s4, req, "contact")
      s6 == StageConfig(s5, e)
  IN StageSend(s6, req, "contact")

\* the handler goes on to sendJSONSuccess without waiting for the task
MayRespond_afterTask(t) == t.pc = "done"
MayRespond(t) == TRUE

RequestsN ==
  [method : {"POST", "OPTIONS"}, origin : {""}, ip : Clients,
   body : {GoodBody, [GoodBody EXCEPT !.json = FALSE]},
   smtp : {"", "tls: handshake failure"}]

InitN ==
  /\ variant = "contact"
  /\ now = 0
  /\ visitors = [ip \in IPs |-> NoEntry]
  /\ mu = "free"
  /\ cur = Idle
  /\ lastSweep = 0
  /\ hstart = [ip \in IPs |-> None]
  /\ hk = [ip \in IPs |-> 0]
  /\ trig = [ip \in IPs |-> None]
  /\ admits = [ip \in IPs |-> <<>>]
  /\ setOneAt = [ip \in IPs |-> None]
  /\ last = NoLast
  /\ env \in EnvChoicesN
  /\ resp = NoResp
  /\ PureIdle /\ NotifIdle /\ FormIdle /\ AnaIdle

\* a request runs from its arrival to the go statement or to an early return
Receive(req) ==
  /\ hn.pc = "idle"
  /\ CanLock(mu)
  /\ visitors[req.ip].count < MaxCount
  /\ \E st \in {HandlerWithNotifications(req, env, visitors[req.ip], now)} :
        /\ visitors' = [visitors EXCEPT ![req.ip] = st.entry]
        /\ hn' = [pc |-> IF st.done THEN "done" ELSE "spawned", req |-> req,
                   writes |-> st.writes, sent |-> st.sent, sendErr |-> st.sendErr]
        /\ task' = IF st.done THEN NoTask
                   ELSE [pc |-> "slack", slack |-> "none", auto |-> "none"]
  /\ logs' = {}
  /\ UNCHANGED <<formVars, variant, now, mu, cur, lastSweep, hist, last, env, resp,
                 pureVars, anaVars>>

\* sendJSONSuccess after the go statement
Respond ==
  /\ hn.pc = "spawned"
  /\ MayRespond(task)
  /\ hn' = [hn EXCEPT !.pc = "done", !.writes = Append(@, 200)]
  /\ UNCHANGED <<formVars, limVars, env, resp, pureVars, task, logs, anaVars>>

\* the background task: sendSlackNotification and the log of its error
SlackStep(o) ==
  /\ task.pc = "slack"
  /\ \E r \in {sendSlackNotification(env, o)} :
        /\ logs' = logs \cup r.log
                      \cup (IF r.err # "" THEN {"Error enviando notificación Slack"} ELSE {})
        /\ task' = [task EXCEPT !.pc = "auto",
                                !.slack = IF env.SLACK_WEBHOOK_URL = "" THEN "disabled"
                                          ELSE IF SlackFailed(o) THEN "failed" ELSE "ok"]
  /\ UNCHANGED <<formVars, limVars, env, resp, pureVars, hn, anaVars>>

\* the background task: sendAutoResponse and the log of its error
AutoStep(o) ==
  /\ task.pc = "auto"
  /\ \E r \in {sendAutoResponse(env, o)} :
        /\ logs' = logs \cup r.log
                      \cup (IF r.err # "" THEN {"Error enviando auto-respuesta"} ELSE {})
        /\ task' = [task EXCEPT !.pc = "done",
                                !.auto = IF env.AUTO_RESPONSE_ENABLED # "true" THEN "disabled"
                                         ELSE IF o # "" THEN "failed" ELSE "ok"]
  /\ UNCHANGED <<formVars, limVars, env, resp, pureVars, hn, anaVars>>

\* the handler has returned and the task has ended: the next request may come
Finish ==
  /\ hn.pc = "done"
  /\ task.pc \in {"none", "done"}
  /\ hn' = NoHn /\ task' = NoTask /\ logs' = {}
  /\ UNCHANGED <<formVars, limVars, env, resp, pureVars, anaVars>>

NextN ==
  \/ \E req \in RequestsN : Receive(req)
  \/ Respond
  \/ \E o \in SlackOutcomes : SlackStep(o)
  \/ \E o \in {"", "550 mailbox unavailable"} : AutoStep(o)
  \/ Finish

SpecN == InitN /\ [][NextN]_vars

\* ------------------------------------------------------ HandlerWithAnalytics
\* Two goroutines serve valid POST requests through HandlerWithAnalytics: the
\* limiter inside Handler, the delivery, then recordSubmission.  The
\* statements of recordSubmission are separate steps: nothing orders them
\* between goroutines.  acc is the last access to package-level state and
\* whether the goroutine held mu at that moment.
Procs == {"g1", "g2"}
NoAccess == [what |-> "none", held |-> TRUE]
\* (delivered: smtp.SendMail returned nil for the request being served)
IdleProc ==
  [pc |-> "idle", n |-> 0, status |-> 0, delivered |-> FALSE, slice |-> <<>>,
   acc |-> NoAccess]

\* FormSubmission{Success, Error}
FormSubmission(status) ==
  [Success |-> status = 200, Error |-> IF status = 200 THEN "" ELSE "HTTP"]

InitA ==
  /\ variant = "contact"
  /\ now \in {0, sweepEvery}
  /\ visitors = [ip \in IPs |-> NoEntry]
  /\ mu = "free"
  /\ cur = Idle
  /\ lastSweep = 0
  /\ hstart = [ip \in IPs |-> None]
  /\ hk = [ip \in IPs |-> 0]
  /\ trig = [ip \in IPs |-> None]
  /\ admits = [ip \in IPs |-> <<>>]
  /\ setOneAt = [ip \in IPs |-> None]
  /\ last = NoLast
  /\ env = EnvOf("", SmtpFull)
  /\ resp = NoResp
  /\ PureIdle /\ NotifIdle /\ FormIdle
  /\ procs = [g \in Procs |-> IdleProc]
  /\ submissions = <<>>
  /\ analytics = 0

\* checkRateLimit: mu.Lock()
ALock(g) ==
  /\ procs[g].pc = "idle" /\ procs[g].n < MaxReqs
  /\ CanLock(mu)
  /\ mu' = g
  /\ procs' = [procs EXCEPT ![g].pc = "limit", ![g].delivered = FALSE,
                             ![g].acc = NoAccess]
  /\ UNCHANGED <<formVars, variant, now, visitors, cur, lastSweep, hist, last, env, resp,
                 pureVars, notifVars, submissions, analytics>>

\* an OPTIONS request: Handler answers w.WriteHeader(http.StatusOK) and returns
\* before the limiter
AOptions(g) ==
  /\ procs[g].pc = "idle" /\ procs[g].n < MaxReqs
  /\ procs' = [procs EXCEPT ![g].pc = "record", ![g].status = 200,
                             ![g].delivered = FALSE, ![g].acc = NoAccess]
  /\ UNCHANGED <<formVars, limVars, env, resp, pureVars, notifVars, submissions, analytics>>

\* checkRateLimit: the critical section and the deferred mu.Unlock()
ALimit(g, ip) ==
  /\ procs[g].pc = "limit"
  /\ \E r \in {CheckEntry(visitors[ip], now, variant)} :
        /\ visitors' = [visitors EXCEPT ![ip] = r.entry]
        /\ procs' = [procs EXCEPT
                       ![g].pc = IF r.verdict = "ok" THEN "io" ELSE "record",
                       ![g].status = IF r.verdict = "ok" THEN 0 ELSE 429,
                       ![g].acc = [what |-> "visitors", held |-> mu = g]]
  /\ mu' = "free"
  /\ UNCHANGED <<formVars, variant, now, cur, lastSweep, hist, last, env, resp,
                 pureVars, notifVars, submissions, analytics>>

\* the rest of Handler: decoding, configuration, smtp.SendMail, the response
AIO(g, outcome) ==
  /\ procs[g].pc = "io"
  /\ procs' = [procs EXCEPT ![g].pc = "record",
                             ![g].status = IF sendEmail(outcome, variant) = "" THEN 200
                                           ELSE SendFailureStatus(outcome),
                             ![g].delivered = sendEmail(outcome, variant) = "",
                             ![g].acc = [what |-> "io", held |-> mu # g]]
  /\ UNCHANGED <<formVars, limVars, env, resp, pureVars, notifVars, submissions, analytics>>

\* recordSubmission: append reads the slice ...
ARecRead(g) ==
  /\ procs[g].pc = "record"
  /\ procs' = [procs EXCEPT ![g].pc = "write", ![g].slice = submissions,
                             ![g].acc = [what |-> "submissions", held |-> mu = g]]
  /\ UNCHANGED <<formVars, limVars, env, resp, pureVars, notifVars, submissions, analytics>>

\* ... and the result is stored in submissions
ARecWrite(g) ==
  /\ procs[g].pc = "write"
  /\ submissions' = Append(procs[g].slice, FormSubmission(procs[g].status))
  /\ procs' = [procs EXCEPT ![g].pc = "update", ![g].slice = <<>>,
                             ![g].acc = [what |-> "submissions", held |-> mu = g]]
  /\ UNCHANGED <<formVars, limVars, env, resp, pureVars, notifVars, analytics>>

\* updateAnalytics: analytics.TotalSubmissions = int64(len(submissions))
AUpdate(g) ==
  /\ procs[g].pc = "update"
  /\ analytics' = Len(submissions)
  /\ procs' = [procs EXCEPT ![g].pc = "idle", ![g].n = @ + 1,
                             ![g].acc = [what |-> "analytics", held |-> mu = g]]
  /\ UNCHANGED <<formVars, limVars, env, resp, pureVars, notifVars, submissions>>

\* cleanupVisitors: one pass with mu held
ASweep ==
  /\ CanLock(mu)
  /\ now - lastSweep >= sweepEvery
  /\ visitors' = SweepMap(visitors, now, variant)
  /\ lastSweep' = now
  /\ UNCHANGED <<formVars, variant, now, mu, cur, hist, last, env, resp,
                 pureVars, notifVars, anaVars>>

NextA ==
  \/ \E g \in Procs : ALock(g)
  \/ \E g \in Procs : AOptions(g)
  \/ \E g \in Procs : \E ip \in IPs : ALimit(g, ip)
  \/ \E g \in Procs : \E o \in {"", "tls: handshake failure"} : AIO(g, o)
  \/ \E g \in Procs : ARecRead(g)
  \/ \E g \in Procs : ARecWrite(g)
  \/ \E g \in Procs : AUpdate(g)
  \/ ASweep

SpecA == InitA /\ [][NextA]_vars

\* ------------------------------------------- the sweep, scheduled fairly
\* The three limiters with their sweeps: checkRateLimit and the inline limiter
\* of api/contact.go, and the token bucket of main.go.
VariantsL == Variants \cup {"main"}

\* main.go, getVisitorLimiter(ip) then limiter.Allow(): count holds the tokens
\* left in the bucket, refilled at one token every ten seconds up to the burst.
Refill(e, t) ==
  LET full == e.count + refillPerMinute * Since(e, t)
  IN IF full > burst THEN burst ELSE full

getVisitorLimiter(e, t) ==
  IF ~e.present
    THEN [present |-> TRUE, count |-> burst, lastSeen |-> t, blocked |-> FALSE]
    ELSE [e EXCEPT !.count = Refill(e, t), !.lastSeen = t]

Allow(e) == IF e.count > 0 THEN [e EXCEPT !.count = e.count - 1] ELSE e

\* The entry of an IP after one request has gone through the limiter.
Visited(e, t, v) ==
  IF v = "main" THEN Allow(getVisitorLimiter(e, t)) ELSE CheckEntry(e, t, v).entry

\* the clock runs long enough past QuietFrom for a sweep to meet every entry
LastTime(v) == QuietFrom + Retention(v) + SweepEvery(v)

NoSwept == [valid |-> FALSE, removed |-> {}, kept |-> {}, t |-> 0]

InitL ==
  /\ variant \in VariantsL
  /\ LimIdle
  /\ env = EnvOf("", SmtpFull)
  /\ resp = NoSwept
  /\ PureIdle /\ NotifIdle /\ FormIdle /\ AnaIdle

\* One request from ip reaches the limiter.  The observed clients stop at
\* QuietFrom, the other addresses keep sending.
Visit(ip) ==
  /\ CanLock(mu)
  /\ ip \in Clients => now < QuietFrom
  /\ visitors[ip].count < MaxCount
  /\ visitors' = [visitors EXCEPT ![ip] = Visited(@, now, variant)]
  /\ UNCHANGED <<formVars, variant, now, mu, cur, lastSweep, hist, last, env, resp,
                 pureVars, notifVars, anaVars>>

\* cleanupVisitors: time.Sleep(period), then one pass under the lock; resp
\* keeps what the pass removed and what it kept.
SweepL ==
  /\ CanLock(mu)
  /\ now - lastSweep >= SweepEvery(variant)
  /\ visitors' = SweepMap(visitors, now, variant)
  /\ lastSweep' = now
  /\ resp' = [valid |-> TRUE,
              removed |-> {ip \in IPs : visitors[ip].present /\ ~visitors'[ip].present},
              kept |-> {ip \in IPs : visitors'[ip].present},
              t |-> now]
  /\ UNCHANGED <<formVars, variant, now, mu, cur, hist, last, env, pureVars, notifVars, anaVars>>

TickL ==
  /\ now < LastTime(variant)
  /\ now' = now + 1
  /\ UNCHANGED <<formVars, variant, visitors, mu, cur, lastSweep, hist, last, env, resp,
                 pureVars, notifVars, anaVars>>

NextL ==
  \/ \E ip \in IPs : Visit(ip)
  \/ SweepL
  \/ TickL

\* The cleanup goroutine is started once and loops for ever, and the mutex is
\* released by every request: the sweep and the clock are weakly fair.
SpecL == InitL /\ [][NextL]_vars /\ WF_vars(SweepL) /\ WF_vars(TickL)

\* ------------------------------------------------------ the contact form
\* submitData of the page: the async function of app.js, the promise chain of
\* app.js and part_002, and the async function of part_003 with its richer
\* validation and its alerts.
VariantsF == {"async", "chain", "enhanced"}

\* String.prototype.trim and \s of a JavaScript regular expression
jsTrim(s) == TrimSpace(s)
\* /^[^\s@]+@[^\s@]+\.[^\s@]+$/
NotJsSpaceAt(s, i, j) == \A k \in i..j : s[k] # "@" /\ ~IsSpace(s[k])
jsEmailRegex(s) ==
  \E i \in 1..Len(s) : \E j \in (i + 1)..Len(s) :
    /\ s[i] = "@" /\ s[j] = "."
    /\ i > 1 /\ NotJsSpaceAt(s, 1, i - 1)
    /\ j > i + 1 /\ NotJsSpaceAt(s, i + 1, j - 1)
    /\ Len(s) > j /\ NotJsSpaceAt(s, j + 1, Len(s))

maxLengths == [name |-> 100, email |-> 254, message |-> 2000]

\* validateField(field): the error text of one field, <<>> when it is valid
validateField(d, field, v) ==
  IF v = "enhanced"
    THEN CASE field = "name" ->
                IF jsTrim(d.name) = <<>> THEN <<"El nombre es obligatorio.">>
                ELSE IF Len(jsTrim(d.name)) > maxLengths.name
                  THEN <<"El nombre no puede exceder ", "100", " caracteres.">>
                ELSE IF ~NameMatches(jsTrim(d.name))
                  THEN <<"El nombre solo puede contener letras y espacios.">>
                ELSE <<>>
           [] field = "email" ->
                IF jsTrim(d.email) = <<>> THEN <<"El correo electrónico es obligatorio.">>
                ELSE IF Len(jsTrim(d.email)) > maxLengths.email
                  THEN <<"El correo no puede exceder ", "254", " caracteres.">>
                ELSE IF ~emailRegex(jsTrim(d.email))
                  THEN <<"Por favor, introduce un correo electrónico válido.">>
                ELSE <<>>
           [] OTHER ->
                IF jsTrim(d.message) = <<>> THEN <<"El mensaje es obligatorio.">>
                ELSE IF Len(jsTrim(d.message)) < 10
                  THEN <<"El mensaje debe tener al menos 10 caracteres.">>
                ELSE IF Len(jsTrim(d.message)) > maxLengths.message
                  THEN <<"El mensaje no puede exceder ", "2000", " caracteres.">>
                ELSE <<>>
    ELSE CASE field = "name" ->
                IF jsTrim(d.name) = <<>> THEN <<"El nombre es obligatorio.">> ELSE <<>>
           [] field = "email" ->
                IF d.email = <<>> THEN <<"El correo electrónico es obligatorio.">>
                ELSE IF ~jsEmailRegex(d.email)
                  THEN <<"Por favor, introduce un correo electrónico válido.">>
                ELSE <<>>
           [] OTHER ->
                IF Len(jsTrim(d.message)) < 10
                  THEN <<"El mensaje debe tener al menos 10 caracteres.">>
                ELSE <<>>

\* validate(): every field is validated and its error replaced; the form is
\* valid when no error is left
validate(d, v) ==
  [name |-> validateField(d, "name", v),
   email |-> validateField(d, "email", v),
   message |-> validateField(d, "message", v)]
isValid(errs) == errs = NoFields

\* updateCharCounts() of part_003
updateCharCounts(f) ==
  [f EXCEPT !.charCounts = [name |-> Len(f.formData.name), message |-> Len(f.formData.message)]]

\* the synchronous part of submitData: f is the component after it, issued
\* tells whether fetch was called
submitData(f, v) ==
  LET errs == validate(f.formData, v)
      f1 == [f EXCEPT !.successMessage = <<>>, !.errorMessage = <<>>,
                      !.showSuccess = FALSE, !.showError = FALSE, !.errors = errs]
  IN IF ~isValid(errs)
       THEN [form |-> IF v = "enhanced"
                        THEN [f1 EXCEPT !.showError = TRUE,
                                        !.errorMessage =
                                           <<"Por favor, corrige los errores en el formulario.">>]
                        ELSE f1,
             issued |-> FALSE]
       ELSE [form |-> [f1 EXCEPT !.loading = TRUE], issued |-> TRUE]

\* What fetch and response.json() can give: the request fails on the network,
\* or a status comes back with a body that is JSON (error and message are its
\* fields, "" when absent) or is not.
NetworkFailure == [net |-> TRUE, status |-> "", json |-> FALSE, error |-> "", message |-> ""]
Answer(status, json, error, message) ==
  [net |-> FALSE, status |-> status, json |-> json, error |-> error, message |-> message]
Responses ==
  { NetworkFailure,
    Answer("200", TRUE, "", "Mensaje enviado correctamente"),
    Answer("200", TRUE, "", ""),
    Answer("200", FALSE, "", ""),
    Answer("429", TRUE, "Demasiadas solicitudes", ""),
    Answer("500", TRUE, "", ""),
    Answer("502", FALSE, "", "") }
ok(r) == r.status = "200"

\* error.message of what fetch and response.json() throw
FetchError == <<"Failed to fetch">>
SyntaxError == <<"Unexpected token < in JSON at position 0">>
ServerError(r) == <<"Error del servidor: ", r.status>>
ServerErrorUnavailable(r) ==
  <<"Error del servidor: ", r.status,
    ". La API no está disponible o no responde correctamente.">>

\* the error the chain hands to its handlers: "" when the response is a success
Thrown(r, v) ==
  IF r.net THEN FetchError
  ELSE IF v = "chain"
    THEN (IF ~ok(r) THEN ServerErrorUnavailable(r)
          ELSE IF ~r.json THEN SyntaxError ELSE <<>>)
    ELSE (IF ~r.json THEN SyntaxError
          ELSE IF ~ok(r) THEN (IF r.error # "" THEN <<r.error>> ELSE ServerError(r))
          ELSE <<>>)

SuccessText(r, v) ==
  IF r.message # "" THEN <<r.message>>
  ELSE IF v = "enhanced" THEN <<"¡Mensaje enviado con éxito! Te responderemos pronto.">>
  ELSE <<"¡Mensaje enviado con éxito! Puedes enviar otro si lo deseas.">>

\* the component after the success branch
Succeeded(f, r, v) ==
  LET f1 == [f EXCEPT !.successMessage = SuccessText(r, v), !.formData = NoFields]
  IN IF v = "chain"
       THEN [f1 EXCEPT !.errors = validate(NoFields, v), !.timers = f.timers + 1]
     ELSE IF v = "async"
       THEN [f1 EXCEPT !.errors = NoFields, !.timers = f.timers + 1]
     ELSE updateCharCounts([f1 EXCEPT !.errors = NoFields, !.showSuccess = TRUE])

\* the component after the catch branch
Failed(f, msg, v) ==
  IF v = "enhanced" THEN [f EXCEPT !.showError = TRUE, !.errorMessage = msg]
  ELSE [f EXCEPT !.errorMessage = msg]

\* everything submitData runs once the response r is there, finally included
Settled(f, r, v) ==
  LET msg == Thrown(r, v)
      f1 == IF msg = <<>> THEN Succeeded(f, r, v) ELSE Failed(f, msg, v)
  IN [f1 EXCEPT !.loading = FALSE]

\* ---- what the user can type
NamesF == {<<>>, <<"J", "1">>, GoodName}
EmailsF == {<<>>, <<"a">>, GoodEmail}
MessagesF == {<<>>, <<"m">>, GoodMessage}
FieldValues == [name |-> NamesF, email |-> EmailsF, message |-> MessagesF]
Fields == {"name", "email", "message"}

InitF ==
  /\ variant \in VariantsF
  /\ LimIdle
  /\ env = EnvOf("", SmtpFull)
  /\ resp = NoResp
  /\ PureIdle /\ NotifIdle /\ FormIdle /\ AnaIdle

\* x-model writes the field; part_003 also runs onInput(field)
onInput(f, field, v) ==
  IF v = "enhanced"
    THEN LET f1 == updateCharCounts(f)
         IN IF f1.formData[field] # <<>> \/ f1.errors[field] # <<>>
              THEN [f1 EXCEPT !.errors[field] = validateField(f1.formData, field, v)]
              ELSE f1
    ELSE f

Type(field, value) ==
  /\ form.formData[field] # value
  /\ form' = onInput([form EXCEPT !.formData[field] = value], field, variant)
  /\ settled' = NoSettled
  /\ UNCHANGED <<limVars, env, resp, pureVars, notifVars, anaVars, fetches>>

\* the form is submitted: submitData() up to its call of fetch
Submit ==
  /\ Len(fetches) + form.timers < MaxFetches
  /\ \E st \in {submitData(form, variant)} :
        /\ form' = st.form
        /\ fetches' = IF st.issued THEN Append(fetches, form.formData) ELSE fetches
  /\ settled' = NoSettled
  /\ UNCHANGED <<limVars, env, resp, pureVars, notifVars, anaVars>>

\* the response of the i-th request in flight arrives and is handled
Settle(i, r) ==
  /\ i \in 1..Len(fetches)
  /\ form' = Settled(form, r, variant)
  /\ fetches' = SubSeq(fetches, 1, i - 1) \o SubSeq(fetches, i + 1, Len(fetches))
  /\ settled' = [valid |-> TRUE, r |-> r, success |-> Thrown(r, variant) = <<>>]
  /\ UNCHANGED <<limVars, env, resp, pureVars, notifVars, anaVars>>

\* setTimeout(() => { this.successMessage = '' }, 5000)
Timeout ==
  /\ form.timers > 0
  /\ form' = [form EXCEPT !.successMessage = <<>>, !.timers = form.timers - 1]
  /\ settled' = NoSettled
  /\ UNCHANGED <<limVars, env, resp, pureVars, notifVars, anaVars, fetches>>

NextF ==
  \/ \E field \in Fields : \E value \in FieldValues[field] : Type(field, value)
  \/ Submit
  \/ \E i \in 1..MaxFetches : \E r \in Responses : Settle(i, r)
  \/ Timeout

SpecF == InitF /\ [][NextF]_vars

\* ==================================================================== claims
Done == last.verdict # "none"

\* C1: starting from no entry, the first rateLimit requests of an IP inside one
\* window are admitted and request number rateLimit+1 inside that window is
\* rejected, in both limiters, whatever the sweep does in between.
C1_FirstNThenReject ==
  Done =>
    /\ (last.k \in 1..RateLimit(variant) => last.verdict = "ok")
    /\ (last.k = RateLimit(variant) + 1 => last.verdict = "exceeded")

C1_Witness ==
  /\ variant = "contact" /\ Done
  /\ last.k = rateLimit + 1 /\ last.verdict = "exceeded"
  /\ lastSweep > hstart[last.ip]

C3_RejectedWhileBlocked ==
  (variant = "contact" /\ Done /\ last.ptrig # None
     /\ last.t - last.ptrig < blockDuration)
  => last.verdict # "ok"

\* C4: checkRateLimit admits at most rateLimit requests of one IP in any
\* interval of timeWindow (admits holds the admissions of the last timeWindow).
C4_AtMostLimitPerWindow ==
  variant = "contact" => \A ip \in IPs : Len(admits[ip]) <= rateLimit

C4_Witness ==
  /\ variant = "contact" /\ Done /\ last.verdict = "exceeded"
  /\ Len(admits[last.ip]) = rateLimit
  /\ lastSweep > 0

\* C5 (as stated): a request of a not-blocked IP arriving more than the window
\* after the counter was last set to 1 resets the counter and is admitted;
\* otherwise the counter is incremented and the window start stays.
C5_WindowFromReset ==
  (Done /\ last.pre.present /\ ~last.pre.blocked) =>
    IF last.t - last.pset > TimeWindow(variant)
      THEN last.post.count = 1 /\ last.verdict = "ok"
      ELSE /\ last.post.count = last.pre.count + 1
           /\ last.post.lastSeen = last.pre.lastSeen

\* C5 (amended): the window runs from lastSeen.  A request of a not-blocked IP
\* arriving more than the window after lastSeen resets the counter to 1, sets
\* lastSeen and is admitted; otherwise the counter is incremented, and lastSeen
\* moves to the request time in checkRateLimit and stays in the inline limiter
\* (where it is the moment the counter was last set to 1).
C5_WindowFromLastSeen ==
  (Done /\ last.pre.present /\ ~last.pre.blocked) =>
    /\ IF last.t - last.pre.lastSeen > TimeWindow(variant)
         THEN /\ last.post.count = 1 /\ last.verdict = "ok"
              /\ last.post.lastSeen = last.t
         ELSE /\ last.post.count = last.pre.count + 1
              /\ last.post.lastSeen =
                   IF variant = "contact" THEN last.t ELSE last.pre.lastSeen
    /\ (variant = "inline" => last.pre.lastSeen = last.pset)

C5_Witness ==
  /\ variant = "contact" /\ Done /\ last.pre.present /\ ~last.pre.blocked
  /\ last.t - last.pset > timeWindow
  /\ last.t - last.pre.lastSeen <= timeWindow
  /\ last.post.count = last.pre.count + 1

\* C6: a counter decreases only by a reset to 1 once its window has elapsed
\* (an entry is deleted only then, too), and whenever the mutex is free an
\* entry whose counter is 1 carries the time stamp of that reset.
Consistent(ip) ==
  (visitors[ip].present /\ visitors[ip].count = 1)
    => visitors[ip].lastSeen = setOneAt[ip]

DecreaseIsReset(ip) ==
  LET e == visitors[ip]
      f == visitors'[ip]
  IN /\ (e.present /\ f.present /\ f.count < e.count)
          => (f.count = 1 /\ now - e.lastSeen > TimeWindow(variant))
     /\ (e.present /\ ~f.present) => now - e.lastSeen > TimeWindow(variant)

C6_CounterMonotone ==
  [][ /\ \A ip \in IPs : DecreaseIsReset(ip)
      /\ (mu' = "free" => \A ip \in IPs : Consistent(ip)') ]_vars

C6_Witness ==
  /\ Done /\ last.pre.present /\ last.pre.count > 1
  /\ last.post.count = 1 /\ last.post.lastSeen = last.t


\* ------------------------------------------------------ claims on the Handler
Served == resp.valid
Status == resp.writes[1]
Missing(body) ==
  body.json /\ (body.name = <<>> \/ body.email = <<>> \/ body.message = <<>>)
LimiterAdmits == CheckEntry(resp.pre, resp.t, variant).verdict = "ok"
PassedAll ==
  /\ ~OriginRejected(resp.req, env, variant)
  /\ LimiterAdmits
  /\ resp.req.method = "POST"
  /\ parseAndValidateRequest(resp.req.body).err = ""
  /\ newSmtpConfig(env).err = ""

\* C7: an OPTIONS request gets status 200 whatever the Origin header, the
\* limiter state of the client IP and the body are, in both Handler variants.
C7_OptionsAlways200 ==
  (Served /\ resp.req.method = "OPTIONS") =>
     (resp.writes = <<200>> /\ resp.rl = "none" /\ ~resp.sent)

C7_Witness ==
  /\ Served /\ variant = "contact" /\ resp.req.method = "OPTIONS"
  /\ resp.pre.blocked /\ BlockActive(resp.pre, resp.t, variant)
  /\ resp.req.origin = "https://evil.example" /\ env.ALLOWED_ORIGIN = ""
  /\ ~resp.req.body.json
  /\ resp.writes = <<200>>

\* C8 (as stated): the Handler calls smtp.SendMail only for a request that
\* passed the origin check, the limiter, the method check, decoding and
\* validation and the SMTP configuration, and every input with a missing
\* name, email or message gets a 4xx status and no delivery.
C8_MissingAlwaysClientError ==
  (Served /\ variant = "contact") =>
    /\ (resp.sent => PassedAll)
    /\ (Missing(resp.req.body) => (Status \in 400..499 /\ ~resp.sent))

\* C8 (amended): the same, the 4xx status being that of every request other
\* than the OPTIONS preflight (which is answered 200 before any check).
C8_DeliveryOnlyAfterChecks ==
  (Served /\ variant = "contact") =>
    /\ (resp.sent => PassedAll)
    /\ (Missing(resp.req.body) => ~resp.sent)
    /\ (Missing(resp.req.body) /\ resp.req.method # "OPTIONS") => Status \in 400..499

C8_Witness ==
  /\ Served /\ variant = "contact" /\ resp.req.method = "POST"
  /\ resp.req.body.message = <<>> /\ resp.req.body.json
  /\ resp.rl = "ok" /\ newSmtpConfig(env).err = ""
  /\ resp.writes = <<400>> /\ ~resp.sent

\* C9: a request other than OPTIONS is answered 200 with a confirmation
\* message exactly when sendEmail returned success; every other path writes
\* exactly one error status and one error body.
C9_SuccessIffSent ==
  (Served /\ variant = "contact" /\ resp.req.method # "OPTIONS") =>
    /\ Len(resp.writes) = 1 /\ Len(resp.bodies) = 1
    /\ (resp.writes = <<200>> /\ resp.bodies = <<"message">>) <=> resp.sendErr = ""
    /\ resp.sendErr # "" =>
         (Status \in {403, 429, 405, 400, 500} /\ resp.bodies = <<"error">>)

C9_Witness ==
  /\ Served /\ variant = "contact" /\ resp.req.method = "POST"
  /\ resp.sent /\ resp.sendErr = "" /\ resp.writes = <<200>>

\* C10: the status of a request other than OPTIONS is that of the first
\* failing check in the order origin (403), limiter (429), method (405),
\* decode/validate (400), SMTP configuration (500), send.
FirstFailing ==
  IF OriginRejected(resp.req, env, variant) THEN 403
  ELSE IF ~LimiterAdmits THEN 429
  ELSE IF resp.req.method # "POST" THEN 405
  ELSE IF parseAndValidateRequest(resp.req.body).err # "" THEN 400
  ELSE IF newSmtpConfig(env).err # "" THEN 500
  ELSE IF resp.req.smtp # "" THEN 500
  ELSE 200

C10_FirstFailingCheckWins ==
  (Served /\ variant = "contact" /\ resp.req.method # "OPTIONS") =>
     Status = FirstFailing

C10_Witness ==
  /\ Served /\ variant = "contact" /\ resp.req.method = "GET"
  /\ BlockActive(resp.pre, resp.t, variant)
  /\ ~resp.req.body.json
  /\ resp.writes = <<429>>


\* ------------------------------------------- claims on configuration, delivery
SendFailed == Served /\ resp.sent /\ resp.req.smtp # ""

\* C11 (as stated): when sending the primary email fails, the Handler answers
\* 503 for a connection / transport / TLS failure and 500 for any other one.
C11_TransportFailure503 ==
  SendFailed =>
    Status = IF resp.req.smtp \in SmtpTransportErrors THEN 503 ELSE 500

\* C11 (amended): when sending the primary email fails, the Handler answers
\* 500 whatever the failure was; it does not classify the failure.
C11_SendFailure500 ==
  SendFailed => (resp.writes = <<500>> /\ resp.bodies = <<"error">>)

C11_Witness ==
  /\ SendFailed /\ variant = "contact"
  /\ resp.req.smtp = "tls: handshake failure"
  /\ resp.writes = <<500>>

\* C12: the body of the response to a configuration or delivery failure is a
\* fixed text: it is the same whichever variable is missing and whatever
\* smtp.SendMail returned, and is neither that error text nor a variable name.
ConfigFailed ==
  /\ Served /\ ~resp.sent /\ resp.rl = "ok"
  /\ Parse(resp.req.body, variant).err = "" /\ newSmtpConfig(env).err # ""
GenericTexts ==
  {"error de configuración del servidor para enviar el correo. Contacte al administrador",
   "no se pudo enviar el correo. Por favor, inténtalo de nuevo más tarde",
   "hubo un error interno al intentar enviar el correo. Por favor, inténtelo de nuevo más tarde"}
C12_GenericErrorBody ==
  /\ SendFailed =>
       /\ Len(resp.msgs) = 1
       /\ resp.msgs[1] = sendEmail("554 5.7.1 relay access denied", variant)
       /\ resp.msgs[1] \in GenericTexts /\ resp.msgs[1] # resp.req.smtp
  /\ ConfigFailed =>
       /\ Len(resp.msgs) = 1
       /\ resp.msgs[1] = newSmtpConfig(EnvOf("", [SmtpFull EXCEPT !.SMTP_HOST = ""])).err
       /\ resp.msgs[1] \in GenericTexts

C12_Witness ==
  /\ SendFailed /\ resp.req.smtp = "535 5.7.8 authentication failed"
  /\ resp.msgs = <<"no se pudo enviar el correo. Por favor, inténtalo de nuevo más tarde">>


\* ------------------------------------------------------ claims on the fan-out
\* C13: in HandlerWithNotifications the background task (Slack notification,
\* auto-response) exists only after the primary email was sent successfully,
\* the handler never waits for it, and whatever the task does or fails to do
\* the response is 200.
C13_FanOutDetached ==
  /\ task.pc # "none" => (hn.sent /\ hn.sendErr = "")
  /\ hn.pc = "spawned" => ENABLED Respond
  /\ (hn.pc = "done" /\ hn.sent /\ hn.sendErr = "") => hn.writes = <<200>>

C13_Witness ==
  /\ hn.pc = "done" /\ hn.writes = <<200>>
  /\ task.pc = "slack"

\* C14: every failed fan-out attempt is logged: when the webhook POST fails or
\* the webhook answers with a status other than 200 the task logs the Slack
\* failure, and success is logged only when the webhook answered 200.
C14_FailedSlackLogged ==
  /\ (task.pc \in {"auto", "done"} /\ task.slack = "failed")
       => "Error enviando notificación Slack" \in logs
  /\ "Notificación de Slack enviada exitosamente" \in logs
       => (task.pc \in {"auto", "done"} /\ task.slack = "ok")


\* ---------------------------------------------- claims on the pure functions
\* C15: sanitizeInput is idempotent: applied to its own result it returns that
\* result, for inputs with control characters, surrounding white space and
\* the characters & < > " '.
C15_SanitizeIdempotent ==
  (out.op = "sanitize" /\ out.n = 2) => out.res = out.arg

\* C16: sanitizeInput strips the non-printable control characters while it
\* keeps newline and tab, HTML-escapes what remains, and returns a result
\* without leading or trailing white space.
KeepsNewlineAndTab(s) == SelectSeq(s, LAMBDA c : c \notin CtlOnly)
C16_StripEscapeTrim ==
  (out.op = "sanitize" /\ out.n = 1) =>
    /\ out.res = TrimSpace(EscapeString(KeepsNewlineAndTab(out.arg)))
    /\ out.res # <<>> => (~IsSpace(out.res[1]) /\ ~IsSpace(out.res[Len(out.res)]))


\* C17: with a valid name and email, validateContactData fails with the
\* minimum-length error for every submitted message of 9 characters or fewer
\* and does not raise it for any submitted message of 10 characters.
\* (Messages that sanitizeInput empties are left aside: they get the
\* "obligatorio" error.)
C17_MinLengthBySubmittedLength ==
  (out.op = "validate" /\ inp.name = GoodName /\ inp.email = GoodEmail
     /\ out.data.message # <<>>) =>
    /\ Len(inp.message) <= MinMessageLength - 1 => out.err = "el mensaje debe tener al menos"
    /\ Len(inp.message) = MinMessageLength => out.err # "el mensaje debe tener al menos"

\* C18: validateContactData returns the first violated rule in the order name
\* (empty, over 100, not letters), email (empty, over 254, format), message
\* (empty, under 10, over 2000), the rules being those of the sanitized
\* fields; it returns no error exactly when no rule is violated, and an email
\* that does not match the pattern gets the email-format error.
NameRule(d) ==
  IF d.name = <<>> THEN "el nombre es obligatorio"
  ELSE IF ByteLength(d.name) > 100 THEN "el nombre no puede exceder"
  ELSE IF ~NameMatches(d.name) THEN "el nombre solo puede contener letras y espacios"
  ELSE ""
EmailRule(d) ==
  IF d.email = <<>> THEN "el correo electrónico es obligatorio"
  ELSE IF ByteLength(d.email) > 254 THEN "el correo electrónico no puede exceder"
  ELSE IF ~emailRegex(d.email) THEN "el formato del correo electrónico no es válido"
  ELSE ""
MessageRule(d) ==
  IF d.message = <<>> THEN "el mensaje es obligatorio"
  ELSE IF ByteLength(d.message) < 10 THEN "el mensaje debe tener al menos"
  ELSE IF ByteLength(d.message) > 2000 THEN "el mensaje no puede exceder"
  ELSE ""
C18_FirstFailureInOrder ==
  out.op = "validate" =>
    LET d == out.data
    IN /\ d = [name |-> sanitizeInput(inp.name), email |-> sanitizeInput(inp.email),
                message |-> sanitizeInput(inp.message)]
       /\ NameRule(d) # "" => out.err = NameRule(d)
       /\ (NameRule(d) = "" /\ EmailRule(d) # "") => out.err = EmailRule(d)
       /\ (NameRule(d) = "" /\ EmailRule(d) = "") => out.err = MessageRule(d)
       /\ out.err = "" <=> (NameRule(d) = "" /\ EmailRule(d) = "" /\ MessageRule(d) = "")

C18_Witness ==
  /\ out.op = "validate"
  /\ inp.name = <<"J", "1">> /\ inp.email = <<"a", "b">> /\ inp.message = <<>>
  /\ out.err = "el nombre solo puede contener letras y espacios"

\* C19: for a submission accepted by parseAndValidateRequest the body rendered
\* by formatEmailBody contains the submitted name, the submitted email, the
\* client IP and the HTML-escaped form of the submitted message.  (Checked on
\* submissions that sanitizeInput does not trim or strip.)
OnlyEscaped(x) == sanitizeInput(x) = EscapeString(x)
C19_BodyContainsSubmission ==
  (out.op = "format" /\ OnlyEscaped(inp.name) /\ OnlyEscaped(inp.email)
     /\ OnlyEscaped(inp.message)) =>
    /\ Contains(out.body, inp.name)
    /\ Contains(out.body, inp.email)
    /\ Contains(out.body, IPChars(inp.ip))
    /\ Contains(out.body, EscapeString(inp.message))


\* ------------------------------------------------- claim on the shared state
\* C20: requests share no mutable state but the limiter's map, and every read
\* or write of shared state, by a request (the analytics-recording wrapper
\* included) or by the sweep, is made while holding the one mutex, and no I/O
\* is done while it is held.
C20_SharedStateUnderMutex ==
  \A g \in Procs : procs[g].acc.held


\* ------------------------------------------ further claims on the limiter
\* C26: a request that checkRateLimit rejects because the IP is blocked leaves
\* the entry of that IP (count, lastSeen, blocked) and every other entry as
\* they were: attempts during a block never extend it.
C26_BlockedRejectionFrame ==
  [][ (cur.pc = "count" /\ last'.verdict = "blocked")
        => (visitors' = visitors /\ last'.post = last'.pre) ]_vars

C26_Witness ==
  /\ variant = "contact" /\ Done /\ last.verdict = "blocked"
  /\ last.t > last.pre.lastSeen
  /\ visitors[last.ip] = last.pre

\* C27: whenever no request is inside the critical section, every entry of
\* checkRateLimit's map has 1 <= count <= rateLimit + 1 and is blocked exactly
\* when count > rateLimit, whatever the interleaving of requests and sweeps.
C27_CountRangeAndBlocked ==
  (variant = "contact" /\ mu = "free") =>
    \A ip \in IPs : visitors[ip].present =>
      /\ visitors[ip].count \in 1..(rateLimit + 1)
      /\ visitors[ip].blocked <=> visitors[ip].count > rateLimit

C27_Witness ==
  /\ variant = "contact" /\ mu = "free" /\ Done
  /\ last.pre.blocked /\ last.pre.count = rateLimit + 1
  /\ last.post.count = 1 /\ ~last.post.blocked
  /\ lastSweep > 0


\* C28: the limiter's state changes only for requests that reach the limiter:
\* an OPTIONS request and a request rejected by the origin check (403) leave
\* the visitors map as it was, and every other request goes through the
\* limiter and counts against its IP even when it is then answered 405, 400
\* or 500.
SkipsLimiter == resp.req.method = "OPTIONS" \/ Status = 403
C28_LimiterFrame ==
  Served =>
    /\ SkipsLimiter => (visitors[resp.req.ip] = resp.pre /\ resp.rl = "none")
    /\ ~SkipsLimiter =>
         /\ resp.rl # "none"
         /\ visitors[resp.req.ip] = CheckEntry(resp.pre, resp.t, variant).entry
         /\ (Status \in {405, 400, 500} /\ resp.pre.present /\ resp.t = resp.pre.lastSeen)
              => visitors[resp.req.ip].count = resp.pre.count + 1
    /\ \A ip \in IPs \ {resp.req.ip} : ~visitors[ip].present

C28_Witness ==
  /\ Served /\ variant = "contact" /\ resp.req.method = "GET"
  /\ resp.writes = <<405>>
  /\ resp.pre.present /\ visitors[resp.req.ip].count = resp.pre.count + 1


\* ------------------------------------------------------ claim on the analytics
\* C29: HandlerWithAnalytics records a submission as successful exactly when
\* the wrapped Handler delivered the primary email, and once n requests have
\* been handled, one after another or concurrently, TotalSubmissions is n.
RECURSIVE HandledBy(_)
HandledBy(S) ==
  IF S = {} THEN 0
  ELSE LET g == CHOOSE x \in S : TRUE IN procs[g].n + HandledBy(S \ {g})
C29_AnalyticsFaithful ==
  /\ \A g \in Procs : procs[g].pc = "write" =>
        (FormSubmission(procs[g].status).Success <=> procs[g].delivered)
  /\ (\A g \in Procs : procs[g].pc = "idle") => analytics = HandledBy(Procs)


\* ----------------------------------------------- claim on the configuration
\* C23: newSmtpConfig returns an error, and the zero config, exactly when one
\* of SMTP_HOST, SMTP_PORT, SMTP_USER, SMTP_PASS is empty; an empty TO_EMAIL
\* is no error and gives ToEmail = "contacto@softex-labs.xyz".  A request that
\* reaches the configuration is handed to smtp.SendMail exactly when there is
\* no such error.
SmtpMissing ==
  env.SMTP_HOST = "" \/ env.SMTP_PORT = "" \/ env.SMTP_USER = "" \/ env.SMTP_PASS = ""
ReachedConfig ==
  /\ Served /\ resp.req.method = "POST" /\ resp.rl = "ok"
  /\ Parse(resp.req.body, variant).err = ""
Highest ==
  IF inp.header["CF-Connecting-IP"] # <<>> THEN inp.header["CF-Connecting-IP"]
  ELSE IF inp.header["X-Forwarded-For"] # <<>> THEN inp.header["X-Forwarded-For"]
  ELSE IF inp.header["X-Real-IP"] # <<>> THEN inp.header["X-Real-IP"]
  ELSE inp.header["X-Client-IP"]

Horizon(v) == IF v = "contact" THEN 2 * timeWindow
              ELSE IF v = "main" THEN retentionMain ELSE timeWindow2

\* C21, safety half: a step that removes an entry finds its last-seen time
\* farther back than the retention horizon.
RemovedOnlyWhenStale ==
  \A ip \in IPs :
    (visitors[ip].present /\ ~visitors'[ip].present)
      => now - visitors[ip].lastSeen > Horizon(variant)

\* C21, liveness half: once a client has stopped sending, its entry is
\* eventually gone.
QuietEntryRemoved ==
  \A ip \in Clients :
    (now >= QuietFrom /\ visitors[ip].present) ~> ~visitors[ip].present

\* C21: under a fair periodic sweep the entry of every IP that stops sending
\* requests is eventually removed from the visitors map, and a sweep never
\* removes an entry whose last-seen time is within the retention horizon
\* (2*timeWindow for checkRateLimit, 3 minutes in main.go).
C21_SweepRemovesQuietOnlyStale ==
  [][RemovedOnlyWhenStale]_vars /\ QuietEntryRemoved

\* a sweep after the client went quiet has removed the client's entry while
\* it kept the entry of an address that is still sending
C21_Witness ==
  /\ resp.valid
  /\ now >= QuietFrom
  /\ \E ip \in Clients : ip \in resp.removed
  /\ resp.kept # {}

\* ------------------------------------------------ claims on the contact form
\* C24: in every variant of submitData, after a successful submission the three
\* form fields are empty and errors.name, errors.email and errors.message are
\* all empty.
C24_ClearedFormShowsNoError ==
  (settled.valid /\ settled.success)
    => (form.formData = NoFields /\ form.errors = NoFields)

\* C25: when the server answers with a non-2xx status and a JSON body
\* {error: m}, errorMessage ends up equal to m; the generic 'Error del
\* servidor' text is used only when the body is not JSON or has no error field.
C25_ServerErrorTextShown ==
  (settled.valid /\ ~settled.r.net /\ ~ok(settled.r))
    => /\ (settled.r.json /\ settled.r.error # "")
            => form.errorMessage = <<settled.r.error>>
       /\ (form.errorMessage # <<>> /\ Head(form.errorMessage) = "Error del servidor: ")
            => (~settled.r.json \/ settled.r.error = "")

\* C30: loading is true exactly while at least one request issued by
\* submitData is still pending, whatever the sequence of submitData calls; a
\* submit with invalid fields issues no request.
C30_LoadingIffPending ==
  form.loading <=> fetches # <<>>

====
